---- MODULE Spec2Model ----
(***************************************************************************)
(* Model of the workflow execution engine of main.go: the executor        *)
(* registry (NewWorkflowExecutor), the graph builder                      *)
(* (buildExecutionGraph) and the execution coordinator                    *)
(* (WorkflowExecutor.Execute), run on one workflow.                        *)
(*                                                                         *)
(* One behaviour is one call of Execute.  The call is cut into its        *)
(* observable steps: the construction of the result and of the plan, one  *)
(* step per iteration of the loop over the plan, and the classification   *)
(* of the terminal status.                                                 *)
(***************************************************************************)
EXTENDS Naturals, Sequences, FiniteSets

\* ---------------------------------------------------------------- bounds

\* Largest number of nodes stored in workflow.Nodes.
MaxNodes == 3

\* Largest number of nodes of a workflow run with typed properties.
MaxBuiltinNodes == 1

\* Largest reading of the clock.
MaxTime == 2

\* Largest number of consecutive calls of Execute on one workflow.
MaxRuns == 2

\* ------------------------------------------------------------ data model

\* Node identifiers (Node.ID is any string; duplicates are not rejected).
NodeIDs == {"a", "b", "c"}

\* The declared NodeType constants.
NodeWebhook == "webhook"
NodeTimer == "timer"
NodeHTTP == "http"
NodeEmail == "email"
NodeDatabase == "database"
NodeCondition == "condition"
NodeLoop == "loop"
NodeTransform == "transform"
NodeSlack == "slack"
NodeSheets == "sheets"
NodeOpenAI == "openai"

\* The type tags the modelled workflows draw from: one whose built-in
\* executor is kept in both registries, one whose executor the second
\* registry replaces, one that is declared but never registered.
NodeTypesUsed == {NodeWebhook, NodeHTTP, NodeDatabase}

\* Every declared type tag.
AllNodeTypes ==
    {NodeWebhook, NodeTimer, NodeHTTP, NodeEmail, NodeDatabase, NodeCondition,
     NodeLoop, NodeTransform, NodeSlack, NodeSheets, NodeOpenAI}

\* A map[string]interface{} with no entry.
EmptyMap == [k \in {} |-> ""]

\* An interface{} holding a string, and one holding a float64.
StringValue(s) == [type |-> "string", str |-> s, num |-> 0]
FloatValue(n) == [type |-> "float64", str |-> "", num |-> n]

\* Node.Properties of the modelled nodes: a property map without entries.
NodeProperties == {EmptyMap}

\* Property maps as a JSON body decodes them: none, the properties of a
\* webhook or timer node, and the same keys holding values of the other type.
PropertyMaps ==
    {EmptyMap,
     [url |-> StringValue("/hook"), method |-> StringValue("POST"),
      interval |-> FloatValue(1)],
     [url |-> FloatValue(1), method |-> FloatValue(1),
      interval |-> StringValue("soon")]}

\* Workflow identifiers: one the caller chooses, one uuid.New() returns.
CallerID == "w1"
FreshID == "u1"
WorkflowIDs == {CallerID, FreshID}

\* The Node struct (Name, X and Y are presentation only).
Node == [ID : NodeIDs, Type : NodeTypesUsed, Properties : NodeProperties]

\* The Connection struct, by its endpoints.
Connection == [FromID : NodeIDs, ToID : NodeIDs]

\* workflow.Connections with zero, one or two connections.
ConnectionSets == {{}} \cup {{c1, c2} : c1 \in Connection, c2 \in Connection}

\* workflow.Nodes: every sequence of at most MaxNodes nodes.
NodeSeqs == UNION {[1..n -> Node] : n \in 0..MaxNodes}

\* The Workflow struct, by the fields Execute reads.
Workflow == [ID : {CallerID}, Nodes : NodeSeqs, Connections : ConnectionSets]

\* The node identifiers in the order a small workflow uses them.
IDAt == <<"a", "b", "c">>

\* Workflows of at most MaxBuiltinNodes nodes with distinct identifiers,
\* any declared type and any of the property maps, unconnected or chained.
BuiltinNodeSeqs ==
    UNION {{ns \in [1..n -> [ID : NodeIDs, Type : AllNodeTypes,
                               Properties : PropertyMaps]] :
               \A i \in 1..n : ns[i].ID = IDAt[i]} : n \in 0..MaxBuiltinNodes}

Chain(n) == {[FromID |-> IDAt[i], ToID |-> IDAt[i + 1]] : i \in 1..(n - 1)}

BuiltinWorkflows ==
    {[ID |-> CallerID, Nodes |-> ns, Connections |-> cs] :
        ns \in BuiltinNodeSeqs, cs \in {{}}} \cup
    {[ID |-> CallerID, Nodes |-> ns, Connections |-> Chain(Len(ns))] :
        ns \in BuiltinNodeSeqs}

\* ------------------------------------------------------------- executors

\* node.Properties[key].(string): the value when present and a string,
\* the zero value "" otherwise.
StringProperty(node, key) ==
    IF key \in DOMAIN node.Properties /\ node.Properties[key].type = "string"
    THEN node.Properties[key].str
    ELSE ""

\* node.Properties[key].(float64): the value when present and a number,
\* the zero value 0 otherwise.
FloatProperty(node, key) ==
    IF key \in DOMAIN node.Properties /\ node.Properties[key].type = "float64"
    THEN node.Properties[key].num
    ELSE 0

\* What an executor returns: (output, nil) or (nil, err).
Success(output) == [ok |-> TRUE, output |-> output, err |-> ""]
Failure(err) == [ok |-> FALSE, output |-> EmptyMap, err |-> err]

\* A webhook executor that rejects a node without a url.
WebhookExecutorStrict(node, input) ==
    IF StringProperty(node, "url") = ""
    THEN Failure("missing url")
    ELSE Success([status |-> "webhook_executed",
                  url |-> StringProperty(node, "url"),
                  method |-> StringProperty(node, "method")])

WebhookExecutor(node, input) ==
    Success([status |-> "webhook_executed",
             url |-> StringProperty(node, "url"),
             method |-> StringProperty(node, "method")])

\* A timer executor that rejects a node whose interval is no number.
TimerExecutorStrict(node, input) ==
    IF "interval" \in DOMAIN node.Properties
       /\ node.Properties["interval"].type = "float64"
    THEN Success([status |-> "timer_completed",
                  waited |-> FloatProperty(node, "interval")])
    ELSE Failure("invalid interval")

TimerExecutor(node, input) ==
    Success([status |-> "timer_completed",
             waited |-> FloatProperty(node, "interval")])

HTTPExecutor(node, input) ==
    Success([status |-> "http_request_sent",
             url |-> StringProperty(node, "url"),
             method |-> StringProperty(node, "method")])

EmailExecutor(node, input) ==
    Success([status |-> "email_sent",
             to |-> StringProperty(node, "to"),
             subject |-> StringProperty(node, "subject")])

ConditionExecutor(node, input) ==
    Success([status |-> "condition_evaluated",
             condition |-> StringProperty(node, "condition"),
             result |-> TRUE])

TransformExecutor(node, input) ==
    Success([status |-> "data_transformed",
             script |-> StringProperty(node, "script")])

\* An implementation of the NodeExecutor interface that returns an error.
FailingExecutor(node, input) == Failure("failed")

\* executor.Execute(&node, input): dispatch on the dynamic type of the
\* interface value.
NodeExecutorExecute(executor, node, input) ==
    CASE executor = "WebhookExecutor" -> WebhookExecutor(node, input)
      [] executor = "TimerExecutor" -> TimerExecutor(node, input)
      [] executor = "HTTPExecutor" -> HTTPExecutor(node, input)
      [] executor = "EmailExecutor" -> EmailExecutor(node, input)
      [] executor = "ConditionExecutor" -> ConditionExecutor(node, input)
      [] executor = "TransformExecutor" -> TransformExecutor(node, input)
      [] executor = "FailingExecutor" -> FailingExecutor(node, input)

\* A registry that also serves database nodes, with the http executor.
NewWorkflowExecutorWithDatabase ==
    [t \in {NodeWebhook, NodeTimer, NodeHTTP, NodeEmail, NodeCondition,
            NodeTransform, NodeDatabase} |->
        CASE t = NodeWebhook -> "WebhookExecutor"
          [] t = NodeTimer -> "TimerExecutor"
          [] t = NodeHTTP -> "HTTPExecutor"
          [] t = NodeEmail -> "EmailExecutor"
          [] t = NodeCondition -> "ConditionExecutor"
          [] t = NodeTransform -> "TransformExecutor"
          [] t = NodeDatabase -> "HTTPExecutor"]

\* The registry NewWorkflowExecutor builds: six types, one executor each.
NewWorkflowExecutor ==
    [t \in {NodeWebhook, NodeTimer, NodeHTTP, NodeEmail, NodeCondition,
            NodeTransform} |->
        CASE t = NodeWebhook -> "WebhookExecutor"
          [] t = NodeTimer -> "TimerExecutor"
          [] t = NodeHTTP -> "HTTPExecutor"
          [] t = NodeEmail -> "EmailExecutor"
          [] t = NodeCondition -> "ConditionExecutor"
          [] t = NodeTransform -> "TransformExecutor"]

\* The values the nodeExecutors field takes: the registry as built, and
\* the same registry holding, for one type, a NodeExecutor that fails.
Registries ==
    {NewWorkflowExecutor,
     [NewWorkflowExecutor EXCEPT ![NodeHTTP] = "FailingExecutor"]}

\* ------------------------------------------------------------ coordinator

VARIABLES
    workflow,       \* the *Workflow handed to Execute
    nodeExecutors,  \* WorkflowExecutor.nodeExecutors
    pc,             \* position in Execute: "start", "loop", "classify", "done"
    result,         \* the ExecutionResult under construction
    graph,          \* the plan returned by buildExecutionGraph
    idx,            \* 1-based position of the range loop in graph
    invoked,        \* log of the executor.Execute calls: node, position, input
    execErr,        \* the error Execute hands back beside the result
    now,            \* the reading of time.Now()
    returned,       \* the results earlier calls of Execute handed back
    workflows,      \* WorkflowEngine.workflows: identifier -> *Workflow
    heap,           \* the Workflow objects the pointers refer to
    mu,             \* WorkflowEngine.mu: the writer and the readers holding it
    threads,        \* the goroutines calling the engine: call, position, locals
    execThread,     \* the goroutine that is inside Execute
    lastRet         \* what the call that returned last handed to its caller

execVars == <<workflow, nodeExecutors, pc, result, graph, idx, invoked,
             execErr>>

storeVars == <<workflows, heap, mu, threads, execThread, lastRet>>

vars == <<execVars, now, returned, storeVars>>

\* The zero value of ExecutionResult.
ZeroResult ==
    [WorkflowID |-> "", Status |-> "", StartTime |-> 0, EndTime |-> 0,
     Results |-> EmptyMap, Errors |-> <<>>]

\* The composite literal of lines 190-196: a fresh result, running, started
\* at t, with a new output map and a new error slice.
NewExecutionResult(id, t) ==
    [WorkflowID |-> id, Status |-> "running", StartTime |-> t, EndTime |-> 0,
     Results |-> EmptyMap, Errors |-> <<>>]

\* A return that leaves EndTime at its zero value.
SetEndTimeZero(r, t) == r

\* result.EndTime = time.Now()
SetEndTime(r, t) == [r EXCEPT !.EndTime = t]

\* The nil interface{} passed as an executor's input.
NilInput == [isNil |-> TRUE, entries |-> EmptyMap]

\* buildExecutionGraph: returns the nodes in storage order.
buildExecutionGraph(w) == w.Nodes

\* fmt.Sprintf with the node's identifier where the code has its type.
NoExecutorErrorByID(node) == <<"no executor for node type: ", node.ID>>

\* fmt.Sprintf("no executor for node type: %s", node.Type)
NoExecutorError(node) == <<"no executor for node type: ", node.Type>>

\* fmt.Sprintf("node %s error: %v", node.ID, err)
NodeError(node, err) == <<"node ", node.ID, " error: ", err>>

\* A loop that drops the output of a node.
SetResultDropped(results, id, output) == results

\* result.Results[node.ID] = output
SetResult(results, id, output) ==
    [k \in DOMAIN results \cup {id} |-> IF k = id THEN output ELSE results[k]]

\* The nil error.
NilError == ""

\* A return that hands back an error when the result has errors.
ExecuteErrorOnFailure(errors) ==
    IF Len(errors) > 0 THEN "execution failed" ELSE NilError

\* return result, nil (line 225): the error beside the result is nil.
ExecuteError(errors) == NilError

\* The executor value of a failed lookup.
NoExecutor == "nil"

\* A lookup that falls back to the webhook executor.
LookupWithDefault(reg, tag) ==
    IF tag \in DOMAIN reg THEN [exists |-> TRUE, executor |-> reg[tag]]
    ELSE [exists |-> TRUE, executor |-> "WebhookExecutor"]

\* executor, exists := we.nodeExecutors[node.Type] (line 203)
Lookup(reg, tag) ==
    IF tag \in DOMAIN reg THEN [exists |-> TRUE, executor |-> reg[tag]]
    ELSE [exists |-> FALSE, executor |-> NoExecutor]

\* An Execute that registers the webhook executor for a type it misses.
ExecuteRegistersMissing(reg, node) ==
    [t \in DOMAIN reg \cup {node.Type} |->
        IF t \in DOMAIN reg THEN reg[t] ELSE "WebhookExecutor"]

\* The assignments Execute makes to nodeExecutors: none.
ExecuteRegisters(reg, node) == reg

\* An append that puts the new error in front.
PrependError(errors, e) == <<e>> \o errors

\* result.Errors = append(result.Errors, ...) (lines 205 and 211)
AppendError(errors, e) == Append(errors, e)

\* A range loop that never sees the end of the plan.
RangeDoneNever(i, g) == FALSE

\* for _, node := range graph (line 202): the loop is over after the last
\* element.
RangeDone(i, g) == i > Len(g)

\* A break where the code has continue: the loop is left at the first error.
ContinueAsBreak(i, g) == Len(g) + 1

\* The continue statement of the loop: on to the next element of the plan.
Continue(i, g) == i + 1

\* A closing if that leaves a result without errors as it is.
TerminalStatusRunning(errors) ==
    IF Len(errors) > 0 THEN "failed" ELSE "running"

\* A closing if that tolerates one error.
TerminalStatusOffByOne(errors) ==
    IF Len(errors) > 1 THEN "failed" ELSE "completed"

\* The closing if of Execute: failed when any error was recorded.
TerminalStatus(errors) == IF Len(errors) > 0 THEN "failed" ELSE "completed"


\* ------------------------------------------------------------------ store

\* The goroutines that call the engine, and the value for none of them.
Threads == {"t1", "t2"}
NoThread == "none"

\* The nil *Workflow.
NilPtr == 0

\* The node lists of the stored workflows.
StoreNodeLists ==
    {<<[ID |-> "a", Type |-> NodeWebhook, Properties |-> EmptyMap]>>,
     <<[ID |-> "a", Type |-> NodeDatabase, Properties |-> EmptyMap],
       [ID |-> "b", Type |-> NodeWebhook, Properties |-> EmptyMap]>>}

\* The Workflow a handler decodes from a request body carrying identifier id.
Bodies(ids) ==
    [ID : ids, Nodes : StoreNodeLists, Connections : {{}}, Status : {"active"},
     CreatedAt : {0}, UpdatedAt : {0}]

\* The fields of a Workflow that Execute reads.
View(w) == [ID |-> w.ID, Nodes |-> w.Nodes, Connections |-> w.Connections]

\* The view a goroutine holds before it has fetched a workflow.
NoView == [ID |-> "", Nodes |-> <<>>, Connections |-> {}]

\* A goroutine that is in no call.
IdleThread ==
    [op |-> "none", pc |-> "idle", id |-> "", ptr |-> NilPtr, snap |-> NoView]

\* What a call hands back: the pointer, the error, the listed pointers, the
\* execution result.
Ret(op, id, w, err, list, res) ==
    [op |-> op, id |-> id, w |-> w, err |-> err, list |-> list, result |-> res]

NoRet == Ret("none", "", NilPtr, "", {}, ZeroResult)

NotFound == "workflow not found"

\* The RWMutex with no holder.
Unlocked == [writer |-> NoThread, readers |-> {}]

\* Lock returns at once when nobody holds the mutex in any mode.
CanLockIgnoringReaders(m) == m.writer = NoThread

CanLock(m) == m.writer = NoThread /\ m.readers = {}

\* RLock returns at once when no writer holds the mutex.
CanRLock(m) == m.writer = NoThread

\* A write path that returns without releasing the lock.
UnlockMissing(m, t) == m

Lock(m, t) == [m EXCEPT !.writer = t]
Unlock(m, t) == [m EXCEPT !.writer = NoThread]
RLock(m, t) == [m EXCEPT !.readers = @ \cup {t}]

\* A return without the deferred RUnlock.
RUnlockMissing(m, t) == m

RUnlock(m, t) == [m EXCEPT !.readers = @ \ {t}]

\* The address of a new object: the first one not in use.
NewPtr(hp) == CHOOSE p \in 1..(Cardinality(DOMAIN hp) + 1) : p \notin DOMAIN hp

\* The objects of hp some pointer of the set roots refers to.
Collect(hp, roots) == [p \in DOMAIN hp \cap roots |-> hp[p]]

\* The pointers held by the map ws, the goroutines ths and the caller of the
\* call that returned last.
Roots(ws, ths, ret) ==
    {ws[id] : id \in DOMAIN ws} \cup {ths[t].ptr : t \in Threads}
        \cup {ret.w} \cup ret.list

\* An assignment that copies the object into the one already stored.
StoreInPlace(ws, hp, id, p) ==
    IF id \in DOMAIN ws
    THEN [workflows |-> ws, heap |-> [hp EXCEPT ![ws[id]] = hp[p]]]
    ELSE [workflows |-> [k \in DOMAIN ws \cup {id} |-> IF k = id THEN p ELSE ws[k]],
          heap |-> hp]

\* we.workflows[w.ID] = w: the map entry is set to the pointer.
StoreWorkflow(ws, hp, id, p) ==
    [workflows |-> [k \in DOMAIN ws \cup {id} |-> IF k = id THEN p ELSE ws[k]],
     heap |-> hp]

\* A lookup that hands back the map's value without the exists test.
GetWorkflowUnchecked(ws, id) ==
    IF id \in DOMAIN ws THEN [w |-> ws[id], err |-> ""]
    ELSE [w |-> NilPtr, err |-> ""]

\* The body of GetWorkflow: the stored pointer, or nil and an error.
GetWorkflowReturn(ws, id) ==
    IF id \in DOMAIN ws THEN [w |-> ws[id], err |-> ""]
    ELSE [w |-> NilPtr, err |-> NotFound]

\* A CreateWorkflow that gives every workflow a generated identifier.
CreateIDAlwaysFresh(w) == FreshID

\* if w.ID == "" { w.ID = uuid.New().String() } (lines 94-96)
CreateID(w) == IF w.ID = "" THEN FreshID ELSE w.ID

\* An UpdateWorkflow without the exists test.
UpdateExistsAlways(ws, id) == TRUE

\* _, exists := we.workflows[w.ID] (line 120)
UpdateExists(ws, id) == id \in DOMAIN ws

\* A delete that empties the map.
DeleteEverything(ws, id) == [k \in {} |-> NilPtr]

\* delete(we.workflows, id) (line 137)
DeleteEntry(ws, id) == [k \in DOMAIN ws \ {id} |-> ws[k]]

\* A CreateWorkflow that keeps the status the caller supplied.
InitialStatusSupplied(w) == w.Status

\* w.Status = "inactive" (line 99)
InitialStatus(w) == "inactive"

\* An ExecuteWorkflow that drops the error of its GetWorkflow.
ExecuteWorkflowErrorSwallowed(id, e) ==
    Ret("Execute", id, NilPtr, "", {}, ZeroResult)

\* ExecuteWorkflow, lines 154-156: return nil, err
ExecuteWorkflowError(id, e) == Ret("Execute", id, NilPtr, e, {}, ZeroResult)

\* An Execute that marks the workflow it was handed as running.
ExecuteMarksRunning(hp, p) == [hp EXCEPT ![p].Status = "running"]

\* The assignments Execute makes through its workflow pointer: none.
ExecuteAssigns(hp, p) == hp

\* The store as a reader sees it: identifier -> stored Workflow.
StoreView == [id \in DOMAIN workflows |-> heap[workflows[id]]]

\* The state of the store and of its callers before any call.
InitStore ==
    /\ workflows = EmptyMap
    /\ heap = EmptyMap
    /\ mu = Unlocked
    /\ threads = [t \in Threads |-> IdleThread]
    /\ execThread = NoThread
    /\ lastRet = NoRet

\* Before the first statement of Execute.
InitCall ==
    /\ InitStore
    /\ pc = "start"
    /\ result = ZeroResult
    /\ graph = <<>>
    /\ idx = 1
    /\ invoked = <<>>
    /\ execErr = NilError
    /\ now = 0
    /\ returned = <<>>

Init ==
    /\ workflow \in Workflow
    /\ nodeExecutors \in Registries
    /\ InitCall

\* Execute, lines 190-199: the result is created running and the plan built.
ExecuteBegin ==
    /\ pc = "start"
    /\ result' = NewExecutionResult(workflow.ID, now)
    /\ graph' = buildExecutionGraph(workflow)
    /\ idx' = 1
    /\ pc' = "loop"
    /\ UNCHANGED <<workflow, nodeExecutors, invoked, execErr, now,
                   returned, storeVars>>

\* Execute, lines 202-216: one iteration of the loop over the plan.
ExecuteNode ==
    /\ pc = "loop"
    /\ idx <= Len(graph)
    /\ LET node == graph[idx]
           found == Lookup(nodeExecutors, node.Type)
       IN
        /\ nodeExecutors' = ExecuteRegisters(nodeExecutors, node)
        /\ IF ~found.exists
           THEN /\ result' = [result EXCEPT
                      !.Errors = AppendError(@, NoExecutorError(node))]
                /\ idx' = Continue(idx, graph)
                /\ invoked' = invoked
           ELSE LET ret == NodeExecutorExecute(found.executor, node, NilInput)
                IN /\ invoked' = Append(invoked,
                          [node |-> node, pos |-> idx, input |-> NilInput])
                   /\ IF ~ret.ok
                      THEN /\ result' = [result EXCEPT
                                 !.Errors = AppendError(@, NodeError(node, ret.err))]
                           /\ idx' = Continue(idx, graph)
                      ELSE /\ result' = [result EXCEPT
                                 !.Results = SetResult(@, node.ID, ret.output)]
                           /\ idx' = idx + 1
    /\ UNCHANGED <<workflow, pc, graph, execErr, now, returned, storeVars>>

\* Execute, line 216 to 218: the range loop ends when the plan is exhausted.
ExecuteLoopEnd ==
    /\ pc = "loop"
    /\ RangeDone(idx, graph)
    /\ pc' = "classify"
    /\ UNCHANGED <<workflow, nodeExecutors, result, graph, idx, invoked,
                   execErr, now, returned, storeVars>>

\* Execute, lines 218-225: the terminal status is set and the result returned.
ExecuteReturn ==
    /\ pc = "classify"
    /\ result' = [SetEndTime(result, now) EXCEPT
                      !.Status = TerminalStatus(result.Errors)]
    /\ execErr' = ExecuteError(result.Errors)
    /\ pc' = "done"
    /\ UNCHANGED <<workflow, nodeExecutors, graph, idx, invoked, now, returned,
                   storeVars>>

Next == ExecuteBegin \/ ExecuteNode \/ ExecuteLoopEnd \/ ExecuteReturn

Spec == Init /\ [][Next]_vars

\* ------------------------------------------- repeated runs, built-in registry

\* The clock advances.
Tick ==
    /\ now < MaxTime
    /\ now' = now + 1
    /\ UNCHANGED <<execVars, returned, storeVars>>

\* The caller keeps the result it was handed and calls Execute again on the
\* same workflow.
ExecuteAgain ==
    /\ pc = "done"
    /\ Len(returned) + 1 < MaxRuns
    /\ returned' = Append(returned, result)
    /\ pc' = "start"
    /\ graph' = <<>>
    /\ idx' = 1
    /\ invoked' = <<>>
    /\ UNCHANGED <<workflow, nodeExecutors, result, execErr, now, storeVars>>

InitBuiltin ==
    /\ workflow \in BuiltinWorkflows
    /\ nodeExecutors = NewWorkflowExecutor
    /\ InitCall

NextBuiltin ==
    \/ ExecuteBegin
    \/ ExecuteNode
    \/ ExecuteLoopEnd
    \/ ExecuteReturn
    \/ ExecuteAgain
    \/ Tick

SpecBuiltin == InitBuiltin /\ [][NextBuiltin]_vars

\* ------------------------------------------------ one call, run to its end

\* The workflows without connections (Execute does not read them).
UnconnectedWorkflows == {w \in Workflow : w.Connections = {}}

InitTerminates ==
    /\ workflow \in UnconnectedWorkflows
    /\ nodeExecutors \in Registries
    /\ InitCall

\* Execute is straight-line code in one goroutine and every executor call
\* returns: a statement that can run does run.
SpecTerminates == InitTerminates /\ [][Next]_vars /\ WF_vars(Next)

\* ------------------------------------------------ one node of any type tag

\* The type tags a decoded node can carry: the declared ones and the empty
\* string, the zero value of NodeType.
LookupTags == AllNodeTypes \cup {""}

\* The workflows of one node, of any tag.
LookupWorkflows ==
    {[ID |-> CallerID,
      Nodes |-> <<[ID |-> id, Type |-> tag, Properties |-> EmptyMap]>>,
      Connections |-> {}] : id \in NodeIDs, tag \in LookupTags}

InitLookup ==
    /\ workflow \in LookupWorkflows
    /\ nodeExecutors \in Registries
    /\ InitCall

SpecLookup == InitLookup /\ [][Next]_vars

\* ------------------------------------------------ the engine, concurrently

\* The effect of a step on the map, the objects, the goroutines and the value
\* handed back; objects no pointer refers to any more are dropped.
Settle(ws, hp, ths, ret) ==
    /\ workflows' = ws
    /\ threads' = ths
    /\ lastRet' = ret
    /\ heap' = Collect(hp, Roots(ws, ths, ret))

\* lastRet is the value most recently handed back to a caller; it is kept
\* until the next call is made.
\* Goroutine t in call op, inside the critical section.
Inside(op, id, p) ==
    [op |-> op, pc |-> "inside", id |-> id, ptr |-> p, snap |-> NoView]

\* handleCreateWorkflow decodes the body into a new Workflow and calls
\* CreateWorkflow, which takes the write lock.  uuid.New() never returns an
\* identifier in use, so an empty identifier needs FreshID to be free.
CreateWorkflowCall(t, body) ==
    /\ threads[t].pc = "idle"
    /\ CanLock(mu)
    /\ body.ID = "" => FreshID \notin DOMAIN workflows
    /\ LET p == NewPtr(heap) IN
        Settle(workflows,
               [q \in DOMAIN heap \cup {p} |-> IF q = p THEN body ELSE heap[q]],
               [threads EXCEPT ![t] = Inside("Create", "", p)],
               NoRet)
    /\ mu' = Lock(mu, t)
    /\ UNCHANGED <<execVars, now, returned, execThread>>

\* CreateWorkflow, lines 94-102, and the deferred Unlock.
CreateWorkflowBody(t) ==
    /\ threads[t].op = "Create" /\ threads[t].pc = "inside"
    /\ LET p == threads[t].ptr
           id == CreateID(heap[p])
           hp == [heap EXCEPT ![p] = [@ EXCEPT !.ID = id, !.CreatedAt = now,
                                           !.UpdatedAt = now,
                                           !.Status = InitialStatus(heap[p])]]
           st == StoreWorkflow(workflows, hp, id, p)
       IN Settle(st.workflows, st.heap, [threads EXCEPT ![t] = IdleThread],
                 Ret("Create", id, NilPtr, "", {}, ZeroResult))
    /\ mu' = Unlock(mu, t)
    /\ UNCHANGED <<execVars, now, returned, execThread>>

\* GetWorkflow takes the read lock.
GetWorkflowCall(t, id) ==
    /\ threads[t].pc = "idle"
    /\ CanRLock(mu)
    /\ Settle(workflows, heap, [threads EXCEPT ![t] = Inside("Get", id, NilPtr)],
              NoRet)
    /\ mu' = RLock(mu, t)
    /\ UNCHANGED <<execVars, now, returned, execThread>>

\* GetWorkflow, lines 109-113, and the deferred RUnlock.
GetWorkflowBody(t) ==
    /\ threads[t].op = "Get" /\ threads[t].pc = "inside"
    /\ LET r == GetWorkflowReturn(workflows, threads[t].id) IN
        Settle(workflows, heap, [threads EXCEPT ![t] = IdleThread],
               Ret("Get", threads[t].id, r.w, r.err, {}, ZeroResult))
    /\ mu' = RUnlock(mu, t)
    /\ UNCHANGED <<execVars, now, returned, execThread>>

\* handleUpdateWorkflow decodes the body into a new Workflow and calls
\* UpdateWorkflow, which takes the write lock.
UpdateWorkflowCall(t, body) ==
    /\ threads[t].pc = "idle"
    /\ CanLock(mu)
    /\ LET p == NewPtr(heap) IN
        Settle(workflows,
               [q \in DOMAIN heap \cup {p} |-> IF q = p THEN body ELSE heap[q]],
               [threads EXCEPT ![t] = Inside("Update", "", p)],
               NoRet)
    /\ mu' = Lock(mu, t)
    /\ UNCHANGED <<execVars, now, returned, execThread>>

\* UpdateWorkflow, lines 120-126, and the deferred Unlock.
UpdateWorkflowBody(t) ==
    /\ threads[t].op = "Update" /\ threads[t].pc = "inside"
    /\ LET p == threads[t].ptr
           id == heap[p].ID
       IN IF ~UpdateExists(workflows, id)
          THEN Settle(workflows, heap, [threads EXCEPT ![t] = IdleThread],
                      Ret("Update", id, NilPtr, NotFound, {}, ZeroResult))
          ELSE LET hp == [heap EXCEPT ![p].UpdatedAt = now]
                   st == StoreWorkflow(workflows, hp, id, p)
               IN Settle(st.workflows, st.heap,
                         [threads EXCEPT ![t] = IdleThread],
                         Ret("Update", id, NilPtr, "", {}, ZeroResult))
    /\ mu' = Unlock(mu, t)
    /\ UNCHANGED <<execVars, now, returned, execThread>>

\* DeleteWorkflow takes the write lock.
DeleteWorkflowCall(t, id) ==
    /\ threads[t].pc = "idle"
    /\ CanLock(mu)
    /\ Settle(workflows, heap,
              [threads EXCEPT ![t] = Inside("Delete", id, NilPtr)], NoRet)
    /\ mu' = Lock(mu, t)
    /\ UNCHANGED <<execVars, now, returned, execThread>>

\* DeleteWorkflow, lines 133-138, and the deferred Unlock.
DeleteWorkflowBody(t) ==
    /\ threads[t].op = "Delete" /\ threads[t].pc = "inside"
    /\ LET id == threads[t].id IN
        IF id \notin DOMAIN workflows
        THEN Settle(workflows, heap, [threads EXCEPT ![t] = IdleThread],
                    Ret("Delete", id, NilPtr, NotFound, {}, ZeroResult))
        ELSE Settle(DeleteEntry(workflows, id), heap,
                    [threads EXCEPT ![t] = IdleThread],
                    Ret("Delete", id, NilPtr, "", {}, ZeroResult))
    /\ mu' = Unlock(mu, t)
    /\ UNCHANGED <<execVars, now, returned, execThread>>

\* ListWorkflows takes the read lock.
ListWorkflowsCall(t) ==
    /\ threads[t].pc = "idle"
    /\ CanRLock(mu)
    /\ Settle(workflows, heap,
              [threads EXCEPT ![t] = Inside("List", "", NilPtr)], NoRet)
    /\ mu' = RLock(mu, t)
    /\ UNCHANGED <<execVars, now, returned, execThread>>

\* ListWorkflows, lines 145-149, and the deferred RUnlock.
ListWorkflowsBody(t) ==
    /\ threads[t].op = "List" /\ threads[t].pc = "inside"
    /\ Settle(workflows, heap, [threads EXCEPT ![t] = IdleThread],
              Ret("List", "", NilPtr, "", {workflows[k] : k \in DOMAIN workflows},
                  ZeroResult))
    /\ mu' = RUnlock(mu, t)
    /\ UNCHANGED <<execVars, now, returned, execThread>>

\* ExecuteWorkflow, line 153: GetWorkflow is called and takes the read lock.
ExecuteWorkflowCall(t, id) ==
    /\ threads[t].pc = "idle"
    /\ CanRLock(mu)
    /\ Settle(workflows, heap,
              [threads EXCEPT ![t] = Inside("Execute", id, NilPtr)], NoRet)
    /\ mu' = RLock(mu, t)
    /\ UNCHANGED <<execVars, now, returned, execThread>>

\* ExecuteWorkflow, lines 153-156: GetWorkflow returns, releasing the read
\* lock; on an error ExecuteWorkflow returns it.
ExecuteWorkflowFetch(t) ==
    /\ threads[t].op = "Execute" /\ threads[t].pc = "inside"
    /\ LET r == GetWorkflowReturn(workflows, threads[t].id) IN
        IF r.err # ""
        THEN Settle(workflows, heap, [threads EXCEPT ![t] = IdleThread],
                    ExecuteWorkflowError(threads[t].id, r.err))
        ELSE Settle(workflows, heap,
                    [threads EXCEPT ![t] = [@ EXCEPT !.pc = "fetched",
                                                     !.ptr = r.w,
                                                     !.snap = View(heap[r.w])]],
                    lastRet)
    /\ mu' = RUnlock(mu, t)
    /\ UNCHANGED <<execVars, now, returned, execThread>>

\* ExecuteWorkflow, line 158: Execute is entered with the fetched pointer.
\* One call of Execute is in flight at a time.
ExecuteWorkflowEnter(t) ==
    /\ threads[t].pc = "fetched"
    /\ execThread = NoThread /\ pc = "idle"
    /\ LET hp == ExecuteAssigns(heap, threads[t].ptr) IN
        /\ workflow' = View(hp[threads[t].ptr])
        /\ Settle(workflows, hp, [threads EXCEPT ![t].pc = "executing"], lastRet)
    /\ pc' = "start"
    /\ execThread' = t
    /\ UNCHANGED <<nodeExecutors, result, graph, idx, invoked, execErr,
                   now, returned, mu>>

\* ExecuteWorkflow, line 158: Execute returns and its result is handed back.
ExecuteWorkflowReturn(t) ==
    /\ execThread = t /\ pc = "done"
    /\ Settle(workflows, heap, [threads EXCEPT ![t] = IdleThread],
              Ret("Execute", threads[t].id, NilPtr, execErr, {}, result))
    /\ execThread' = NoThread
    /\ execErr' = NilError
    /\ pc' = "idle"
    /\ workflow' = NoView
    /\ result' = ZeroResult
    /\ graph' = <<>>
    /\ idx' = 1
    /\ invoked' = <<>>
    /\ UNCHANGED <<nodeExecutors, now, returned, mu>>

InitEngine ==
    /\ InitStore
    /\ workflow = NoView
    /\ nodeExecutors = NewWorkflowExecutor
    /\ pc = "idle"
    /\ result = ZeroResult
    /\ graph = <<>>
    /\ idx = 1
    /\ invoked = <<>>
    /\ execErr = NilError
    /\ now = 0
    /\ returned = <<>>

\* The calls of the store.
NextStore ==
    \/ \E t \in Threads, b \in Bodies({"", CallerID}) : CreateWorkflowCall(t, b)
    \/ \E t \in Threads : CreateWorkflowBody(t)
    \/ \E t \in Threads, id \in WorkflowIDs : GetWorkflowCall(t, id)
    \/ \E t \in Threads : GetWorkflowBody(t)
    \/ \E t \in Threads, b \in Bodies({CallerID}) : UpdateWorkflowCall(t, b)
    \/ \E t \in Threads : UpdateWorkflowBody(t)
    \/ \E t \in Threads, id \in WorkflowIDs : DeleteWorkflowCall(t, id)
    \/ \E t \in Threads : DeleteWorkflowBody(t)
    \/ \E t \in Threads : ListWorkflowsCall(t)
    \/ \E t \in Threads : ListWorkflowsBody(t)

\* The calls of the store and of ExecuteWorkflow.
NextEngine ==
    \/ NextStore
    \/ \E t \in Threads, id \in WorkflowIDs : ExecuteWorkflowCall(t, id)
    \/ \E t \in Threads : ExecuteWorkflowFetch(t)
    \/ \E t \in Threads : ExecuteWorkflowEnter(t)
    \/ ExecuteBegin
    \/ ExecuteNode
    \/ ExecuteLoopEnd
    \/ ExecuteReturn
    \/ \E t \in Threads : ExecuteWorkflowReturn(t)

SpecEngine == InitEngine /\ [][NextEngine]_vars

\* ------------------------------------------------ requests as they arrive

\* The node lists a request body can carry: nothing checks them, so a list
\* whose nodes share an identifier is among them.
RequestNodeLists ==
    {<<[ID |-> "a", Type |-> NodeWebhook, Properties |-> EmptyMap]>>,
     <<[ID |-> "a", Type |-> NodeWebhook, Properties |-> EmptyMap],
       [ID |-> "a", Type |-> NodeDatabase, Properties |-> EmptyMap]>>}

\* The Workflow a handler decodes from a request body carrying identifier id.
RequestBodies(ids) ==
    [ID : ids, Nodes : RequestNodeLists, Connections : {{}}, Status : {"active"},
     CreatedAt : {0}, UpdatedAt : {0}]

\* handleUpdateWorkflow for PUT /api/workflows/{id}: the body is decoded into
\* a new Workflow and UpdateWorkflow is called with it, taking the write lock.
\* The handler does not read the {id} of the path; the goroutine's record
\* keeps it.
handleUpdateWorkflow(t, id, body) ==
    /\ threads[t].pc = "idle"
    /\ CanLock(mu)
    /\ LET p == NewPtr(heap) IN
        Settle(workflows,
               [q \in DOMAIN heap \cup {p} |-> IF q = p THEN body ELSE heap[q]],
               [threads EXCEPT ![t] = Inside("Update", id, p)],
               NoRet)
    /\ mu' = Lock(mu, t)
    /\ UNCHANGED <<execVars, now, returned, execThread>>

\* The create, update and get requests.
NextRequests ==
    \/ \E t \in Threads, b \in RequestBodies({"", CallerID}) :
          CreateWorkflowCall(t, b)
    \/ \E t \in Threads : CreateWorkflowBody(t)
    \/ \E t \in Threads, id \in WorkflowIDs,
          b \in RequestBodies({"", CallerID, FreshID}) :
          handleUpdateWorkflow(t, id, b)
    \/ \E t \in Threads : UpdateWorkflowBody(t)
    \/ \E t \in Threads, id \in WorkflowIDs : GetWorkflowCall(t, id)
    \/ \E t \in Threads : GetWorkflowBody(t)

SpecRequests == InitEngine /\ [][NextRequests]_vars

\* ------------------------------------------------- structure of a workflow

\* The identifiers of the nodes of w.
IDsOf(w) == {w.Nodes[i].ID : i \in DOMAIN w.Nodes}

\* No two nodes of w share an identifier.
DistinctIDs(w) ==
    \A i, j \in DOMAIN w.Nodes : w.Nodes[i].ID = w.Nodes[j].ID => i = j

\* Some connection of w has an endpoint that is no node of w.
Dangling(w) ==
    \E c \in w.Connections : c.FromID \notin IDsOf(w) \/ c.ToID \notin IDsOf(w)

\* The connections of w as pairs <<from, to>>.
Edges(w) == {<<c.FromID, c.ToID>> : c \in w.Connections}

\* R together with the pairs two steps of R connect.
Compose(R) ==
    R \cup {<<p[1], q[2]>> : <<p, q>> \in {pq \in R \X R : pq[1][2] = pq[2][1]}}

RECURSIVE Closure(_, _)
\* The transitive closure of R, reached after n rounds of Compose.
Closure(R, n) == IF n = 0 THEN R ELSE Closure(Compose(R), n - 1)

\* The connections of w contain a cycle (a self-loop included).
HasCycle(w) ==
    \E x \in NodeIDs : <<x, x>> \in Closure(Edges(w), Cardinality(NodeIDs))

\* w is a workflow the Graph Builder has to accept.
WellFormed(w) == DistinctIDs(w) /\ ~Dangling(w) /\ ~HasCycle(w)

\* w is a workflow the Graph Builder has to reject.
StructurallyInvalid(w) == HasCycle(w) \/ Dangling(w)

\* The positions of the plan holding a node with identifier id.
PositionsOf(id) == {p \in DOMAIN graph : graph[p].ID = id}

\* The error string e was produced for node n: it names n's type as an
\* unregistered type, or n's identifier as a failed node.
References(e, n) ==
    \/ e[1] = "no executor for node type: " /\ e[2] = n.Type
    \/ e[1] = "node " /\ e[2] = n.ID

\* The positions of the error list whose entry satisfies References for n.
ErrorsFor(n) == {e \in DOMAIN result.Errors : References(result.Errors[e], n)}

\* The plan positions whose node has a registered type.
Dispatched == {p \in DOMAIN graph : graph[p].Type \in DOMAIN nodeExecutors}

\* What the executor of the node at plan position p returns.
ReturnOf(p) ==
    NodeExecutorExecute(nodeExecutors[graph[p].Type], graph[p], NilInput)

\* ------------------------------------------------------------------ claims

\* C1: for every acyclic workflow with distinct identifiers and no dangling
\* connection, the plan holds every node exactly once and, for every
\* connection a->b, a stands before b in the plan.
C1_PlanIsTopologicalOrder ==
    (pc # "start" /\ WellFormed(workflow)) =>
        /\ Len(graph) = Len(workflow.Nodes)
        /\ \A i \in DOMAIN workflow.Nodes :
               Cardinality({p \in DOMAIN graph : graph[p] = workflow.Nodes[i]}) = 1
        /\ \A c \in workflow.Connections :
               \A p \in PositionsOf(c.FromID), q \in PositionsOf(c.ToID) : p < q

\* C2: for every workflow whose connections contain a cycle, the Graph
\* Builder returns no plan at all.
C2_CycleYieldsNoPlan ==
    (pc # "start" /\ HasCycle(workflow)) => Len(graph) = 0

\* C3: for a structurally invalid workflow, no executor is ever invoked, and
\* the returned result is failed, has no output and exactly one error, the
\* structural one.
C3_InvalidNeverExecutes ==
    StructurallyInvalid(workflow) =>
        /\ Len(invoked) = 0
        /\ pc = "done" =>
              /\ result.Status = "failed"
              /\ DOMAIN result.Results = {}
              /\ Len(result.Errors) = 1
              /\ result.Errors[1][1] \notin {"no executor for node type: ", "node "}

\* C4: a workflow with a dangling connection is rejected before any node
\* runs: the loop never processes a node, and the result is failed.
C4_DanglingRejected ==
    Dangling(workflow) =>
        /\ idx = 1
        /\ pc = "done" => result.Status = "failed"

\* C5: an executor is invoked only after every direct predecessor of its
\* node has been processed (stated for the workflows the builder accepts).
C5_PredecessorsFinishFirst ==
    WellFormed(workflow) =>
        \A k \in DOMAIN invoked :
            \A c \in workflow.Connections :
                c.ToID = invoked[k].node.ID =>
                    \A q \in PositionsOf(c.FromID) : q < invoked[k].pos

\* The workflow A->B->C stored in that order, A of a type whose executor
\* succeeds and B of the type whose executor fails.
IsFailingChain ==
    /\ Len(workflow.Nodes) = 3
    /\ workflow.Nodes[1].ID = "a" /\ workflow.Nodes[1].Type = NodeWebhook
    /\ workflow.Nodes[2].ID = "b" /\ workflow.Nodes[2].Type = NodeHTTP
    /\ workflow.Nodes[3].ID = "c"
    /\ workflow.Connections =
           {[FromID |-> "a", ToID |-> "b"], [FromID |-> "b", ToID |-> "c"]}
    /\ nodeExecutors[NodeHTTP] = "FailingExecutor"

\* C6: a failing or missing executor never stops the run: when the loop is
\* left every element of the plan has been processed and is present in the
\* outputs or in the errors; for A->B->C with B failing the result is failed
\* with an output for A, an error for B, and C in outputs or errors.
C6_ContinueOnError ==
    /\ pc \in {"classify", "done"} =>
          /\ idx = Len(graph) + 1
          /\ \A p \in DOMAIN graph :
                 graph[p].ID \in DOMAIN result.Results \/ ErrorsFor(graph[p]) # {}
          /\ Len(invoked) = Cardinality(Dispatched)
    /\ (pc = "done" /\ IsFailingChain) =>
          /\ result.Status = "failed"
          /\ "a" \in DOMAIN result.Results
          /\ \E e \in DOMAIN result.Errors : result.Errors[e][1] = "node "
                                             /\ result.Errors[e][2] = "b"
          /\ \/ "c" \in DOMAIN result.Results
             \/ ErrorsFor(workflow.Nodes[3]) # {}

\* C6 witness: A->B->C has run to the end, B failed and C was still run.
C6_Witness ==
    /\ pc = "done" /\ IsFailingChain
    /\ workflow.Nodes[3].Type = NodeWebhook
    /\ Len(result.Errors) = 1
    /\ DOMAIN result.Results = {"a", "c"}

\* C7: in a returned result the status is completed exactly when the error
\* list is empty and failed exactly when it is not.
C7_StatusMatchesErrors ==
    pc = "done" =>
        /\ result.Status \in {"completed", "failed"}
        /\ result.Status = "completed" <=> Len(result.Errors) = 0
        /\ result.Status = "failed" <=> Len(result.Errors) > 0

\* C7 witness: a returned result that is failed with a single error beside
\* the output of a node that ran.
C7_Witness ==
    /\ pc = "done"
    /\ result.Status = "failed"
    /\ Len(result.Errors) = 1
    /\ DOMAIN result.Results # {}

\* C8 as stated: for each node of an unregistered type (in a workflow with
\* distinct identifiers) the returned result is failed, exactly one entry of
\* the error list references that node, and no output is stored under its
\* identifier.
C8_OneEntryPerUnregisteredNode ==
    (pc = "done" /\ DistinctIDs(workflow)) =>
        \A p \in DOMAIN graph \ Dispatched :
            /\ result.Status = "failed"
            /\ Cardinality(ErrorsFor(graph[p])) = 1
            /\ graph[p].ID \notin DOMAIN result.Results

\* The entries of the error list reporting type t as unregistered.
NoExecutorEntries(t) ==
    {e \in DOMAIN result.Errors :
        result.Errors[e] = <<"no executor for node type: ", t>>}

\* C8 as amended: the returned result of a workflow with nodes of an
\* unregistered type t is failed, its error list has exactly one "no
\* executor for node type: t" entry per node of type t, the keys of the
\* output mapping are the identifiers of the nodes whose executor succeeded,
\* and every node of a registered type has been run.
C8_OneEntryPerNodeOfUnregisteredType ==
    pc = "done" =>
        /\ \A p \in DOMAIN graph \ Dispatched :
               /\ result.Status = "failed"
               /\ Cardinality(NoExecutorEntries(graph[p].Type)) =
                      Cardinality({q \in DOMAIN graph : graph[q].Type = graph[p].Type})
        /\ DOMAIN result.Results = {graph[q].ID : q \in {d \in Dispatched : ReturnOf(d).ok}}
        /\ {invoked[k].pos : k \in DOMAIN invoked} = Dispatched

\* C8 witness: a returned result for two nodes of the unregistered type
\* database followed by a webhook node that was run.
C8_Witness ==
    /\ pc = "done"
    /\ WellFormed(workflow)
    /\ Len(graph) = 3
    /\ graph[1].Type = NodeDatabase /\ graph[2].Type = NodeDatabase
    /\ graph[1].ID # graph[2].ID
    /\ graph[3].Type = NodeWebhook
    /\ Len(result.Errors) = 2
    /\ DOMAIN result.Results = {graph[3].ID}

\* The input handed to an executor, read as a mapping (nil as no entry).
InputEntries(input) == IF input.isNil THEN EmptyMap ELSE input.entries

\* The identifiers of the direct predecessors of the node with identifier id.
Predecessors(id) == {c.FromID : c \in {x \in workflow.Connections : x.ToID = id}}

\* The direct predecessors of the node invoked as entry k of the log that
\* had recorded an output when it was invoked.
SuccessfulPredecessors(k) ==
    {graph[q].ID : q \in {d \in Dispatched :
        /\ d < invoked[k].pos
        /\ graph[d].ID \in Predecessors(invoked[k].node.ID)
        /\ ReturnOf(d).ok}}

\* C9: (for the workflows the builder accepts) a node whose executor failed
\* has exactly one error naming its identifier and no output; a node whose
\* executor succeeded has its output under its identifier and no error, and
\* that output is in the input of every dependent node invoked later.
C9_OutcomeRecordedAndVisible ==
    WellFormed(workflow) =>
        \A k \in DOMAIN invoked :
            LET n == invoked[k].node
                ret == NodeExecutorExecute(nodeExecutors[n.Type], n, invoked[k].input)
            IN  invoked[k].pos < idx =>
                    IF ret.ok
                    THEN /\ n.ID \in DOMAIN result.Results
                         /\ result.Results[n.ID] = ret.output
                         /\ ErrorsFor(n) = {}
                         /\ \A j \in DOMAIN invoked :
                                (j > k /\ n.ID \in Predecessors(invoked[j].node.ID)) =>
                                    /\ n.ID \in DOMAIN InputEntries(invoked[j].input)
                                    /\ InputEntries(invoked[j].input)[n.ID] = ret.output
                    ELSE /\ Cardinality(ErrorsFor(n)) = 1
                         /\ n.ID \notin DOMAIN result.Results

\* C10: (for the workflows the builder accepts) the input of every executor
\* call maps exactly the direct predecessors that recorded an output to
\* that output; a nil input is read as the empty mapping.
C10_InputIsPredecessorOutputs ==
    WellFormed(workflow) =>
        \A k \in DOMAIN invoked :
            InputEntries(invoked[k].input) =
                [id \in SuccessfulPredecessors(k) |-> result.Results[id]]

\* The bijections of the set S onto itself.
Bijections(S) == {f \in [S -> S] : \A x, y \in S : f[x] = f[y] => x = y}

\* The workflows that store the nodes of w in another order.
Reorderings(w) ==
    {[w EXCEPT !.Nodes = [i \in DOMAIN w.Nodes |-> w.Nodes[f[i]]]] :
        f \in Bijections(DOMAIN w.Nodes)}

\* C11: (for the workflows the builder accepts) a workflow with the same
\* nodes and the same connections, stored in any other order, yields the
\* same plan.
C11_PlanIndependentOfStorageOrder ==
    (pc # "start" /\ WellFormed(workflow)) =>
        \A w2 \in Reorderings(workflow) : buildExecutionGraph(w2) = graph

\* The place of a node identifier in the ascending string order.
IDRank(id) == CASE id = "a" -> 1 [] id = "b" -> 2 [] id = "c" -> 3

\* C12: (for the workflows the builder accepts) a node stands before a node
\* of smaller identifier only if the latter was not yet eligible, that is if
\* one of its direct predecessors comes at or after the former; so the plan
\* of a workflow without connections is sorted by ascending identifier.
C12_TiesByAscendingIdentifier ==
    (pc # "start" /\ WellFormed(workflow)) =>
        \A p, q \in DOMAIN graph :
            (p < q /\ IDRank(graph[p].ID) > IDRank(graph[q].ID)) =>
                \E c \in workflow.Connections :
                    /\ c.ToID = graph[q].ID
                    /\ \E r \in PositionsOf(c.FromID) : r >= p

\* C13: a workflow of one webhook node and no connection ends completed,
\* with exactly one output, stored under the node's identifier, and no error.
C13_SingleWebhookCompletes ==
    (/\ pc = "done"
     /\ Len(workflow.Nodes) = 1
     /\ workflow.Nodes[1].Type = NodeWebhook
     /\ workflow.Connections = {}) =>
        /\ result.Status = "completed"
        /\ DOMAIN result.Results = {workflow.Nodes[1].ID}
        /\ result.Results[workflow.Nodes[1].ID].status = "webhook_executed"
        /\ Len(result.Errors) = 0

\* C13 witness: the returned result of the webhook node with the properties
\* url "/hook" and method "POST".
C13_Witness ==
    /\ pc = "done"
    /\ Len(workflow.Nodes) = 1
    /\ workflow.Nodes[1].Type = NodeWebhook
    /\ workflow.Connections = {}
    /\ result.Status = "completed"
    /\ DOMAIN result.Results = {"a"}
    /\ result.Results["a"].url = "/hook"
    /\ result.Results["a"].method = "POST"

\* The number of plan positions whose node is skipped or fails.
FailingPositions ==
    {p \in DOMAIN graph : p \notin Dispatched \/ ~ReturnOf(p).ok}

\* C15: when Execute has returned for the second time on the same workflow,
\* the earlier result ended no later than the later one started, each has
\* start <= end, and the later result holds the outputs and errors of its own
\* run only, which are those of the earlier run.
C15_RunsAreIndependent ==
    (pc = "done" /\ Len(returned) >= 1) =>
        LET r1 == returned[Len(returned)]
            r2 == result
        IN  /\ r1.WorkflowID = r2.WorkflowID
            /\ r1.StartTime <= r1.EndTime
            /\ r2.StartTime <= r2.EndTime
            /\ r1.EndTime <= r2.StartTime
            /\ Len(r2.Errors) = Cardinality(FailingPositions)
            /\ DOMAIN r2.Results = {graph[p].ID : p \in DOMAIN graph \ FailingPositions}
            /\ r1.Results = r2.Results /\ r1.Errors = r2.Errors
            /\ r1.Status = r2.Status

\* C15 witness: two returned results of one workflow, the clock having
\* advanced between the runs and during the second.
C15_Witness ==
    /\ pc = "done"
    /\ Len(returned) = 1
    /\ Len(graph) >= 1
    /\ returned[1].EndTime < result.StartTime
    /\ result.StartTime < result.EndTime

\* ------------------------------------------------- claims about the store

WriteOps == {"Create", "Update", "Delete"}

ReadOps == {"Get", "List", "Execute"}

\* The goroutines inside a critical section of a write call.
WritersInside ==
    {t \in Threads : threads[t].pc = "inside" /\ threads[t].op \in WriteOps}

\* The goroutines inside a critical section of a read call.
ReadersInside ==
    {t \in Threads : threads[t].pc = "inside" /\ threads[t].op \in ReadOps}

\* A step of an ExecuteWorkflow call or of the Execute it makes.
ExecuteStep ==
    \/ execVars' # execVars
    \/ \E t \in Threads :
          /\ threads'[t] # threads[t]
          /\ "Execute" \in {threads[t].op, threads'[t].op}

\* C14: no step of Execute or ExecuteWorkflow changes the store: the stored
\* identifiers and each stored workflow's nodes, connections, status and
\* timestamps are after the step what they were before it.
C14_ExecuteLeavesStoreUnchanged ==
    [][ExecuteStep => StoreView' = StoreView]_vars

\* C14 witness: a failed execution has returned and its workflow is stored.
C14_Witness ==
    /\ lastRet.op = "Execute"
    /\ lastRet.err = ""
    /\ lastRet.result.Status = "failed"
    /\ lastRet.id \in DOMAIN workflows

\* C16: at most one writer is inside its critical section at a time, and no
\* reader is inside while a writer is.
C16_ReaderWriterDiscipline ==
    /\ Cardinality(WritersInside) <= 1
    /\ WritersInside # {} => ReadersInside = {}

\* C16 witness: two readers are inside together.
C16_Witness ==
    /\ Cardinality(ReadersInside) = 2
    /\ \E t \in ReadersInside : threads[t].op = "Get"
    /\ \E t \in ReadersInside : threads[t].op = "List"

\* C17: a goroutine that has fetched the workflow of its ExecuteWorkflow call
\* holds no lock until the call returns, and a write lock can be taken
\* whenever no other call is inside.
C17_NoLockWhileExecuting ==
    \A t \in Threads :
        threads[t].pc \in {"fetched", "executing"} =>
            /\ t \notin mu.readers
            /\ mu.writer # t
            /\ (\A u \in Threads \ {t} : threads[u].pc # "inside") => CanLock(mu)

\* C17 witness: while Execute has run one node and has another to run, a
\* write call holds the write lock.
C17_Witness ==
    /\ pc = "loop"
    /\ idx = 2
    /\ Len(graph) = 2
    /\ \E t \in WritersInside : mu.writer = t

\* The result Execute builds for the node list of snapshot s.
Unregistered(s) ==
    {i \in DOMAIN s.Nodes : s.Nodes[i].Type \notin DOMAIN nodeExecutors}

\* C18: from the fetch to the return of an ExecuteWorkflow call the object
\* it fetched is what it was at the fetch, the plan is that object's node
\* list, the executors invoked are those of its nodes in order, and the
\* returned result is that of its nodes.
C18_RunsOnFetchedSnapshot ==
    /\ \A t \in Threads :
          threads[t].pc \in {"fetched", "executing"} =>
              View(heap[threads[t].ptr]) = threads[t].snap
    /\ execThread # NoThread =>
          LET s == threads[execThread].snap IN
              /\ workflow = s
              /\ pc # "start" =>
                    /\ graph = s.Nodes
                    /\ result.WorkflowID = s.ID
                    /\ \A i \in DOMAIN invoked :
                          invoked[i].node = s.Nodes[invoked[i].pos]
              /\ pc = "done" =>
                    /\ {invoked[i].pos : i \in DOMAIN invoked}
                           = DOMAIN s.Nodes \ Unregistered(s)
                    /\ Len(result.Errors) = Cardinality(Unregistered(s))
                    /\ DOMAIN result.Results
                           = {s.Nodes[i].ID : i \in DOMAIN s.Nodes \ Unregistered(s)}

\* C18 witness: an execution has finished while the workflow stored under
\* its identifier has another node list than the one it ran.
C18_Witness ==
    /\ execThread # NoThread
    /\ pc = "done"
    /\ threads[execThread].id \in DOMAIN workflows
    /\ heap[workflows[threads[execThread].id]].Nodes # graph

\* A step in which a GetWorkflow call returns.
GetReturns(t) ==
    /\ threads[t].op = "Get"
    /\ threads[t].pc = "inside"
    /\ threads'[t].pc = "idle"

\* C20: GetWorkflow(id) returns the stored workflow and no error when id is
\* a key of the store, no workflow and the not-found error otherwise, and
\* leaves the store unchanged.
C20_GetReturnsStoredOrNotFound ==
    [][\A t \in Threads :
          GetReturns(t) =>
              LET id == threads[t].id IN
                  /\ lastRet'.op = "Get"
                  /\ id \in DOMAIN workflows =>
                        /\ lastRet'.w = workflows[id]
                        /\ heap'[lastRet'.w] = heap[workflows[id]]
                        /\ lastRet'.err = ""
                  /\ id \notin DOMAIN workflows =>
                        /\ lastRet'.w = NilPtr
                        /\ lastRet'.err = NotFound
                  /\ workflows' = workflows
                  /\ StoreView' = StoreView]_vars

\* C20 witness: GetWorkflow has returned the not-found error for one
\* identifier while another is stored.
C20_Witness ==
    /\ lastRet.op = "Get"
    /\ lastRet.err = NotFound
    /\ lastRet.w = NilPtr
    /\ workflows # EmptyMap

\* A caller assigns to a field of the Workflow a GetWorkflow or ListWorkflows
\* call handed back to it (lines 113 and 149 return the stored pointers).
\* No lock is involved: the caller holds a plain *Workflow.
CallerWrite ==
    /\ \E p \in ({lastRet.w} \cup lastRet.list) \ {NilPtr} :
          /\ heap[p].Status # "tampered"
          /\ heap' = [heap EXCEPT ![p].Status = "tampered"]
    /\ UNCHANGED <<execVars, now, returned, workflows, mu, threads, execThread,
                   lastRet>>

\* The calls of the store, and callers using what the calls handed back.
NextAlias ==
    \/ NextStore
    \/ CallerWrite

SpecAlias == InitEngine /\ [][NextAlias]_vars

\* C19: what a GetWorkflow observes changes only in the step in which a
\* CreateWorkflow, UpdateWorkflow or DeleteWorkflow call leaves its critical
\* section; nothing a caller holds after a call returned changes it.
C19_NoInteriorReferences ==
    [][StoreView' # StoreView =>
          \E t \in Threads :
              /\ threads[t].pc = "inside"
              /\ threads[t].op \in WriteOps
              /\ threads'[t].pc = "idle"]_vars

\* A step in which the GetWorkflow of goroutine t's ExecuteWorkflow returns.
ExecuteFetches(t) ==
    /\ threads[t].op = "Execute"
    /\ threads[t].pc = "inside"
    /\ threads'[t] # threads[t]

\* C21: when the GetWorkflow of an ExecuteWorkflow call finds no workflow
\* under the identifier, the call returns the not-found error and no result,
\* Execute is not entered and no executor is invoked.
C21_ExecuteUnknownIsNotFound ==
    [][\A t \in Threads :
          (ExecuteFetches(t) /\ threads[t].id \notin DOMAIN workflows) =>
              /\ lastRet'.op = "Execute"
              /\ lastRet'.id = threads[t].id
              /\ lastRet'.err = NotFound
              /\ lastRet'.result = ZeroResult
              /\ threads'[t] = IdleThread
              /\ execVars' = execVars
              /\ execThread' = execThread]_vars

\* C21 witness: ExecuteWorkflow has returned the not-found error while a
\* workflow is stored under another identifier.
C21_Witness ==
    /\ lastRet.op = "Execute"
    /\ lastRet.err = NotFound
    /\ lastRet.result = ZeroResult
    /\ workflows # EmptyMap
    /\ lastRet.id \notin DOMAIN workflows

TerminalStatuses == {"completed", "failed"}

\* C22: the result is running from its creation to the end of the loop, is
\* completed or failed when Execute hands it back, moves from running to a
\* terminal status at most once, and nothing of it changes once its status
\* is terminal.
C22_StatusLifecycle ==
    [][/\ pc' \in {"loop", "classify"} => result'.Status = "running"
       /\ pc' = "done" => result'.Status \in TerminalStatuses
       /\ result.Status = "running" =>
             result'.Status \in {"running"} \cup TerminalStatuses
       /\ result.Status \in TerminalStatuses => result' = result]_vars

\* C22 witness: Execute has handed back a completed result with two outputs.
C22_Witness ==
    /\ pc = "done"
    /\ result.Status = "completed"
    /\ Cardinality(DOMAIN result.Results) = 2

\* C23: whatever nodes of unregistered types and failing executors the
\* workflow has, Execute returns a result and the nil error, and the result's
\* error list has one entry per skipped or failed plan position, each such
\* node being named by an entry.
C23_ErrorsStayInResult ==
    pc = "done" =>
        /\ execErr = NilError
        /\ result # ZeroResult
        /\ result.WorkflowID = workflow.ID
        /\ Len(result.Errors) = Cardinality(FailingPositions)
        /\ \A p \in FailingPositions : ErrorsFor(graph[p]) # {}

\* C23 witness: Execute has returned for a workflow with a node of an
\* unregistered type and a node whose executor failed.
C23_Witness ==
    /\ pc = "done"
    /\ execErr = NilError
    /\ \E e \in DOMAIN result.Errors :
          result.Errors[e][1] = "no executor for node type: "
    /\ \E e \in DOMAIN result.Errors : result.Errors[e][1] = "node "

\* The plan positions the loop has gone through.
Processed == {p \in DOMAIN graph : p < idx}

\* C24: at every point of an execution every key of the output mapping is
\* the identifier of a processed node whose executor was invoked and returned
\* no error, and no processed node that was skipped or whose executor failed
\* has an entry under its identifier, also when identifiers repeat.
C24_OutputsOnlyForSuccessfulNodes ==
    pc # "start" =>
        /\ \A k \in DOMAIN result.Results :
              \E p \in Processed \ FailingPositions : graph[p].ID = k
        /\ \A p \in Processed \cap FailingPositions :
              graph[p].ID \notin DOMAIN result.Results

\* C25: the lookup of the loop, for a node of any type tag, the empty one
\* included: when the tag is a key of the registry the executor run is the
\* one registered under that tag and its outcome is what is recorded; when
\* it is not, no executor is run and the unregistered-type error is recorded.
C25_LookupIsTotal ==
    [][(pc = "loop" /\ idx <= Len(graph) /\ idx' # idx) =>
          LET node == graph[idx] IN
              IF node.Type \in DOMAIN nodeExecutors
              THEN LET ret == NodeExecutorExecute(nodeExecutors[node.Type],
                                                  node, NilInput)
                   IN /\ invoked' = Append(invoked,
                             [node |-> node, pos |-> idx, input |-> NilInput])
                      /\ ret.ok =>
                            /\ result'.Results[node.ID] = ret.output
                            /\ result'.Errors = result.Errors
                      /\ ~ret.ok =>
                            /\ result'.Results = result.Results
                            /\ result'.Errors =
                                   Append(result.Errors, NodeError(node, ret.err))
              ELSE /\ invoked' = invoked
                   /\ result'.Results = result.Results
                   /\ result'.Errors =
                          Append(result.Errors,
                                 <<"no executor for node type: ", node.Type>>)]_vars

\* C25 witness: the loop has gone through a node with the empty type tag
\* and recorded it as unregistered.
C25_Witness ==
    /\ pc = "done"
    /\ Len(graph) = 1
    /\ graph[1].Type = ""
    /\ invoked = <<>>
    /\ result.Errors = <<<<"no executor for node type: ", "">>>>

\* C26: no step of a store call or of an execution, in any interleaving,
\* adds, removes or replaces an entry of the registry NewWorkflowExecutor
\* built.
C26_RegistryImmutable ==
    [][nodeExecutors' = nodeExecutors /\ nodeExecutors = NewWorkflowExecutor]_vars

\* C26 witness: an execution that met a node of an unregistered type has
\* finished while a write call is inside the store.
C26_Witness ==
    /\ execThread # NoThread
    /\ pc = "done"
    /\ result.Status = "failed"
    /\ WritersInside # {}
    /\ nodeExecutors = NewWorkflowExecutor

\* A step in which a CreateWorkflow call returns.
CreateReturns(t) ==
    /\ threads[t].op = "Create"
    /\ threads[t].pc = "inside"
    /\ threads'[t].pc = "idle"

\* C27: when CreateWorkflow returns, the workflow it stored has status
\* inactive whatever status the caller supplied, and no step of
\* ExecuteWorkflow or Execute changes the status of a stored workflow.
C27_CreatedInactiveEngineKeepsStatus ==
    [][/\ \A t \in Threads :
             CreateReturns(t) =>
                 /\ heap[threads[t].ptr].Status = "active"
                 /\ lastRet'.id \in DOMAIN workflows'
                 /\ workflows'[lastRet'.id] = threads[t].ptr
                 /\ heap'[workflows'[lastRet'.id]].Status = "inactive"
       /\ ExecuteStep =>
             \A id \in DOMAIN workflows :
                 /\ id \in DOMAIN workflows'
                 /\ heap'[workflows'[id]].Status = heap[workflows[id]].Status]_vars

\* C27 witness: CreateWorkflow has returned, the workflow it stored is
\* inactive, and an execution is in progress.
C27_Witness ==
    /\ lastRet.op = "Create"
    /\ lastRet.id \in DOMAIN workflows
    /\ heap[workflows[lastRet.id]].Status = "inactive"
    /\ execThread # NoThread
    /\ pc = "loop"

\* C28: in every reachable state of the store the nodes of each stored
\* workflow have pairwise distinct identifiers.
C28_StoredNodeIDsDistinct ==
    \A id \in DOMAIN workflows : DistinctIDs(heap[workflows[id]])

\* A step in which the UpdateWorkflow of goroutine t's PUT request returns
\* without error.
UpdateSucceeds(t) ==
    /\ threads[t].op = "Update"
    /\ threads[t].pc = "inside"
    /\ threads'[t].pc = "idle"
    /\ lastRet'.err = ""

\* C30: when PUT /api/workflows/{id} succeeds, the workflow stored under the
\* {id} of the path is the one of the request, and what is stored under
\* every other identifier is as before.
C30_UpdateTargetsPathID ==
    [][\A t \in Threads :
          UpdateSucceeds(t) =>
              /\ threads[t].id \in DOMAIN workflows'
              /\ workflows'[threads[t].id] = threads[t].ptr
              /\ \A other \in DOMAIN workflows \ {threads[t].id} :
                    /\ other \in DOMAIN workflows'
                    /\ StoreView'[other] = StoreView[other]]_vars

\* The error string the loop records for the failing plan position p.
ExpectedError(p) ==
    IF p \notin Dispatched THEN <<"no executor for node type: ", graph[p].Type>>
    ELSE <<"node ", graph[p].ID, " error: ", ReturnOf(p).err>>

\* Sequence s is an initial part of sequence t.
IsPrefix(s, t) ==
    /\ Len(s) <= Len(t)
    /\ \A i \in DOMAIN s : s[i] = t[i]

\* C29: every step keeps the error list as an initial part of the new one
\* and adds at most one entry; an entry is added only by the loop, at the
\* end, for the plan position being processed, and the loop moves forward:
\* the errors stand in the order in which the plan was processed.
C29_ErrorsInPlanOrder ==
    [][/\ IsPrefix(result.Errors, result'.Errors)
       /\ Len(result'.Errors) <= Len(result.Errors) + 1
       /\ pc = "loop" => idx' >= idx
       /\ Len(result'.Errors) > Len(result.Errors) =>
             /\ pc = "loop"
             /\ idx \in FailingPositions
             /\ result'.Errors[Len(result'.Errors)] = ExpectedError(idx)
             /\ idx' > idx]_vars

\* C29 witness: Execute has returned with the errors of two nodes, the
\* unregistered one processed before the failed one.
C29_Witness ==
    /\ pc = "done"
    /\ Len(result.Errors) = 2
    /\ result.Errors[1][1] = "no executor for node type: "
    /\ result.Errors[2][1] = "node "

\* A step in which an UpdateWorkflow call returns.
UpdateReturns(t) ==
    /\ threads[t].op = "Update"
    /\ threads[t].pc = "inside"
    /\ threads'[t].pc = "idle"

\* C31: when UpdateWorkflow returns for a workflow whose identifier is not
\* stored, it returns the not-found error and the store is as before; for a
\* stored identifier it returns no error, the entry of that identifier is the
\* workflow it was handed, every other entry is as before, and the stored
\* identifiers are the same.
C31_UpdateReplacesOrNotFound ==
    [][\A t \in Threads :
          UpdateReturns(t) =>
              LET p == threads[t].ptr
                  id == heap[p].ID
              IN  /\ lastRet'.op = "Update"
                  /\ DOMAIN workflows' = DOMAIN workflows
                  /\ id \notin DOMAIN workflows =>
                        /\ lastRet'.err = NotFound
                        /\ workflows' = workflows
                        /\ StoreView' = StoreView
                  /\ id \in DOMAIN workflows =>
                        /\ lastRet'.err = ""
                        /\ workflows'[id] = p
                        /\ View(heap'[p]) = View(heap[p])
                        /\ \A other \in DOMAIN workflows \ {id} :
                              /\ workflows'[other] = workflows[other]
                              /\ StoreView'[other] = StoreView[other]]_vars

\* C31 witness: UpdateWorkflow has returned the not-found error while a
\* workflow is stored under another identifier.
C31_Witness ==
    /\ lastRet.op = "Update"
    /\ lastRet.err = NotFound
    /\ lastRet.id \notin DOMAIN workflows
    /\ workflows # EmptyMap

\* A step in which a DeleteWorkflow call returns.
DeleteReturns(t) ==
    /\ threads[t].op = "Delete"
    /\ threads[t].pc = "inside"
    /\ threads'[t].pc = "idle"

\* C32: when DeleteWorkflow returns for an identifier that is not stored, it
\* returns the not-found error and the store is as before; for a stored
\* identifier it returns no error, that entry is gone and every other entry
\* is as before.  A GetWorkflow, the fetch of an ExecuteWorkflow or a
\* DeleteWorkflow that finds the identifier absent returns the not-found error.
C32_DeleteRemovesOrNotFound ==
    [][\A t \in Threads :
          /\ DeleteReturns(t) =>
                LET id == threads[t].id IN
                    /\ lastRet'.op = "Delete"
                    /\ id \notin DOMAIN workflows =>
                          /\ lastRet'.err = NotFound
                          /\ workflows' = workflows
                          /\ StoreView' = StoreView
                    /\ id \in DOMAIN workflows =>
                          /\ lastRet'.err = ""
                          /\ DOMAIN workflows' = DOMAIN workflows \ {id}
                          /\ \A other \in DOMAIN workflows \ {id} :
                                /\ workflows'[other] = workflows[other]
                                /\ StoreView'[other] = StoreView[other]
          /\ (/\ GetReturns(t) \/ ExecuteFetches(t) \/ DeleteReturns(t)
              /\ threads[t].id \notin DOMAIN workflows) =>
                /\ lastRet'.err = NotFound
                /\ threads'[t] = IdleThread]_vars

\* C32 witness: DeleteWorkflow has removed an entry and another is still
\* stored.
C32_Witness ==
    /\ lastRet.op = "Delete"
    /\ lastRet.err = ""
    /\ lastRet.id \notin DOMAIN workflows
    /\ workflows # EmptyMap

\* C33: when CreateWorkflow returns it returns no error; the workflow it was
\* handed is stored under the caller's identifier when that is not empty and
\* under a fresh one otherwise, so that GetWorkflow on the identifier
\* returns it; an entry already under the identifier is replaced; every
\* other entry is as before.
C33_CreateStoresUnderID ==
    [][\A t \in Threads :
          CreateReturns(t) =>
              LET p == threads[t].ptr
                  id == lastRet'.id
              IN  /\ lastRet'.op = "Create"
                  /\ lastRet'.err = ""
                  /\ heap[p].ID # "" => id = heap[p].ID
                  /\ heap[p].ID = "" => id # "" /\ id \notin DOMAIN workflows
                  /\ heap'[p].ID = id
                  /\ View(heap'[p]) = [View(heap[p]) EXCEPT !.ID = id]
                  /\ GetWorkflowReturn(workflows', id) = [w |-> p, err |-> ""]
                  /\ DOMAIN workflows' = DOMAIN workflows \cup {id}
                  /\ \A other \in DOMAIN workflows \ {id} :
                        /\ workflows'[other] = workflows[other]
                        /\ StoreView'[other] = StoreView[other]]_vars

\* C33 witness: CreateWorkflow has replaced the workflow an execution in
\* progress had fetched under the same identifier.
C33_Witness ==
    /\ lastRet.op = "Create"
    /\ lastRet.err = ""
    /\ execThread # NoThread
    /\ threads[execThread].id = lastRet.id
    /\ lastRet.id \in DOMAIN workflows
    /\ workflows[lastRet.id] # threads[execThread].ptr

\* The executors of the registry NewWorkflowExecutor builds.
BuiltinExecutors == {NewWorkflowExecutor[t] : t \in DOMAIN NewWorkflowExecutor}

\* C34: with the built-in registry, each of the six executors returns no
\* error for every node of the plan, whatever its properties; no error of
\* the executor-error branch is ever recorded; and a workflow whose nodes
\* all have registered types ends completed with an empty error list.
C34_BuiltinExecutorsNeverFail ==
    /\ \A p \in DOMAIN graph :
          \A e \in BuiltinExecutors :
              NodeExecutorExecute(e, graph[p], NilInput).ok
    /\ \A e \in DOMAIN result.Errors : result.Errors[e][1] # "node "
    /\ (pc = "done" /\ Dispatched = DOMAIN graph) =>
          /\ result.Status = "completed"
          /\ result.Errors = <<>>
          /\ Len(invoked) = Len(graph)

\* C34 witness: a timer node whose interval is a string has been run and the
\* workflow has ended completed.
C34_Witness ==
    /\ pc = "done"
    /\ Len(graph) = 1
    /\ graph[1].Type = NodeTimer
    /\ "interval" \in DOMAIN graph[1].Properties
    /\ graph[1].Properties["interval"].type = "string"
    /\ result.Status = "completed"
    /\ result.Results["a"].waited = 0

\* C35: in the returned result of a workflow with pairwise distinct node
\* identifiers, the outputs and the errors together are as many as the nodes;
\* a node has an output entry exactly when it was neither skipped nor failed,
\* a skipped or failed node has its error in the list once per such node,
\* and a node with an output has no error naming it.
C35_OneOutcomePerNode ==
    (pc = "done" /\ DistinctIDs(workflow)) =>
        /\ Cardinality(DOMAIN result.Results) + Len(result.Errors)
               = Len(workflow.Nodes)
        /\ \A p \in DOMAIN graph :
              /\ graph[p].ID \in DOMAIN result.Results <=> p \notin FailingPositions
              /\ p \in FailingPositions =>
                    Cardinality({e \in DOMAIN result.Errors :
                                    result.Errors[e] = ExpectedError(p)})
                        = Cardinality({q \in FailingPositions :
                                          ExpectedError(q) = ExpectedError(p)})
              /\ p \notin FailingPositions =>
                    \A e \in DOMAIN result.Errors :
                        ~(result.Errors[e][1] = "node "
                          /\ result.Errors[e][2] = graph[p].ID)

\* C35 witness: a workflow of three distinct nodes has returned with one
\* output, one skipped node and one failed node.
C35_Witness ==
    /\ pc = "done"
    /\ DistinctIDs(workflow)
    /\ Len(workflow.Nodes) = 3
    /\ Cardinality(DOMAIN result.Results) = 1
    /\ \E e \in DOMAIN result.Errors :
          result.Errors[e][1] = "no executor for node type: "
    /\ \E e \in DOMAIN result.Errors : result.Errors[e][1] = "node "

\* C36: every call of Execute reaches its return with a terminal status and
\* the whole plan processed; each step of the loop moves to the next element
\* and invokes at most one executor, and no plan position is invoked twice.
C36_ExecuteTerminates ==
    /\ [][pc = "loop" /\ (idx' # idx \/ invoked' # invoked) =>
             /\ idx' = idx + 1
             /\ \/ invoked' = invoked
                \/ /\ Len(invoked') = Len(invoked) + 1
                   /\ invoked'[Len(invoked')].pos = idx]_vars
    /\ [](\A i, j \in DOMAIN invoked :
              invoked[i].pos = invoked[j].pos => i = j)
    /\ <>(/\ pc = "done"
          /\ idx = Len(workflow.Nodes) + 1
          /\ result.Status \in TerminalStatuses)

\* C36 witness: Execute has returned for a workflow of three nodes, three
\* executors having been invoked.
C36_Witness ==
    /\ pc = "done"
    /\ Len(workflow.Nodes) = 3
    /\ Len(invoked) = 3
    /\ result.Status \in TerminalStatuses

\* The steps by which calls already made go on towards their return.
Progress ==
    \/ \E t \in Threads :
          \/ CreateWorkflowBody(t)
          \/ GetWorkflowBody(t)
          \/ UpdateWorkflowBody(t)
          \/ DeleteWorkflowBody(t)
          \/ ListWorkflowsBody(t)
          \/ ExecuteWorkflowFetch(t)
          \/ ExecuteWorkflowEnter(t)
          \/ ExecuteWorkflowReturn(t)
    \/ ExecuteBegin
    \/ ExecuteNode
    \/ ExecuteLoopEnd
    \/ ExecuteReturn

\* C37: the lock is held exactly by the calls inside a critical section, so
\* once all calls have returned, with or without error, it is free; and as
\* long as some call has not returned, some call can take its next step.
C37_LockAlwaysReleased ==
    /\ \A t \in Threads : mu.writer = t <=> t \in WritersInside
    /\ mu.readers = ReadersInside
    /\ (\A t \in Threads : threads[t].pc = "idle") => mu = Unlocked
    /\ (\E t \in Threads : threads[t].pc # "idle") => ENABLED Progress

\* C37 witness: an UpdateWorkflow has returned the not-found error, all
\* calls have returned and the lock is free.
C37_Witness ==
    /\ lastRet.op = "Update"
    /\ lastRet.err = NotFound
    /\ \A t \in Threads : threads[t].pc = "idle"
    /\ mu = Unlocked

\* The six type tags the claim names as registered.
SixTypes ==
    {"webhook", "timer", "http", "email", "condition", "transform"}

====
